---- MODULE Spec2Model ----
(***************************************************************************)
(* Householder QR, recursive blocked QR and block-power SVD of dfact/qr.py *)
(* as state machines.                                                      *)
(*                                                                         *)
(* Scalars are the real floating-point values of the source, modelled as   *)
(* pairs <<n, d>>: a finite value is the fraction n/d in lowest terms with *)
(* d > 0, and the three non-finite results of floating-point division are  *)
(* <<1, 0>> (+inf), <<-1, 0>> (-inf) and <<0, 0>> (nan).  Rounding and     *)
(* overflow are not modelled: inputs are drawn so that every square root   *)
(* taken is the root of a perfect square.  Only real input is modelled.    *)
(***************************************************************************)
EXTENDS Integers, Sequences, FiniteSets, TLC

VARIABLES
    pc,         \* position of the running call
    raised,     \* the exception the call ended with, "" for none
    calls,      \* the collaborator calls made so far, in order
    \* house
    x_in, v_out, beta, v_1,
    \* house_qr and the converters of its representations
    mode, A, H, betas, j, vj, W, Y, YH, Q, R, Qwy,
    \* recursiveQR
    n_block, stack, blocks,
    \* block_power_svd
    s, n, tol, max_iter, n_iter, done, err, warnings, triple

ctlVars   == <<pc, raised, calls>>
houseVars == <<x_in, v_out, beta, v_1>>
qrVars    == <<mode, A, H, betas, j, vj, W, Y, YH, Q, R, Qwy>>
recVars   == <<n_block, stack, blocks>>
svdVars   == <<s, n, tol, max_iter, n_iter, done, err, warnings, triple>>
vars      == <<ctlVars, houseVars, qrVars, recVars, svdVars>>

(***************************************************************************)
(* Bounds of the model.                                                    *)
(***************************************************************************)
MaxLen   == 3   \* longest vector given to house
MaxSize  == 6   \* most entries (rows times columns) of a matrix given to house_qr
MaxCols  == 6   \* most columns of a matrix given to recursiveQR
MaxBlock == 3   \* largest n_block given to recursiveQR
MaxN     == 3   \* most columns of a matrix given to block_power_svd
MaxIter  == 3   \* largest max_iter given to block_power_svd

(***************************************************************************)
(* Floating-point scalars.                                                 *)
(***************************************************************************)
Zero   == <<0, 1>>
One    == <<1, 1>>
Two    == <<2, 1>>
PosInf == <<1, 0>>
NegInf == <<-1, 0>>
NaN    == <<0, 0>>

IAbs(k) == IF k < 0 THEN -k ELSE k
ISgn(k) == IF k < 0 THEN -1 ELSE IF k = 0 THEN 0 ELSE 1

RECURSIVE GCD(_, _)
GCD(a, b) == IF b = 0 THEN a ELSE GCD(b, a % b)

Norm(k, d) ==
    IF d = 0 THEN <<ISgn(k), 0>>
    ELSE LET g == GCD(IAbs(k), IAbs(d))
             t == ISgn(d)
         IN  <<(t * k) \div g, (t * d) \div g>>

Num(k)      == <<k, 1>>
IsNaN(a)    == a = NaN
IsInf(a)    == a[2] = 0 /\ a[1] # 0
IsFinite(a) == a[2] # 0

Neg(a) == <<-a[1], a[2]>>
Add(a, b) ==
    IF IsNaN(a) \/ IsNaN(b) THEN NaN
    ELSE IF IsInf(a) /\ IsInf(b) THEN (IF a = b THEN a ELSE NaN)
    ELSE IF IsInf(a) THEN a
    ELSE IF IsInf(b) THEN b
    ELSE Norm(a[1] * b[2] + b[1] * a[2], a[2] * b[2])
Sub(a, b) == Add(a, Neg(b))
Mul(a, b) == Norm(a[1] * b[1], a[2] * b[2])
Inv(a)    == Norm(a[2], a[1])
Div(a, b) == Mul(a, Inv(b))
Abs(a)    == <<IAbs(a[1]), a[2]>>

\* the comparisons of floating point: every comparison with nan is false
Eq(a, b)  == ~IsNaN(a) /\ ~IsNaN(b) /\ a = b
Geq(a, b) ==
    /\ ~IsNaN(a) /\ ~IsNaN(b)
    /\ \/ a = b
       \/ a = PosInf
       \/ b = NegInf
       \/ IsFinite(a) /\ IsFinite(b) /\ a[1] * b[2] >= b[1] * a[2]
Leq(a, b) == Geq(b, a)

RECURSIVE RootSearch(_, _, _)
RootSearch(k, lo, hi) ==   \* the largest r in lo..hi with r*r <= k
    IF lo >= hi THEN lo
    ELSE LET mid == (lo + hi + 1) \div 2
         IN  IF mid * mid <= k THEN RootSearch(k, mid, hi)
             ELSE RootSearch(k, lo, mid - 1)
IRoot(k)    == RootSearch(k, 0, IF k < 46340 THEN k ELSE 46340)
IsSquare(k) == k >= 0 /\ IRoot(k) * IRoot(k) = k
\* a value whose square root the model represents exactly
HasRoot(a)  == IsFinite(a) => (IsSquare(a[1]) /\ IsSquare(a[2]))
Sqrt(a) ==
    IF IsNaN(a) \/ a = NegInf THEN NaN
    ELSE IF a = PosInf THEN PosInf
    ELSE IF a[1] < 0 THEN NaN
    ELSE <<IRoot(a[1]), IRoot(a[2])>>

(***************************************************************************)
(* Vectors are sequences of scalars; index k of the source is k + 1 here.  *)
(***************************************************************************)
RECURSIVE Sum(_)
Sum(xs) == IF xs = <<>> THEN Zero ELSE Add(Head(xs), Sum(Tail(xs)))

From(xs, k)  == SubSeq(xs, k + 1, Len(xs))          \* xs[k:]
Scale(c, xs) == [i \in 1..Len(xs) |-> Mul(c, xs[i])]
Dot(xs, ys)  == Sum([i \in 1..Len(xs) |-> Mul(xs[i], ys[i])])
SumSq(xs)    == Sum([i \in 1..Len(xs) |-> Mul(Abs(xs[i]), Abs(xs[i]))])
\* jnp.linalg.norm of a vector
norm(xs)     == Sqrt(SumSq(xs))

\* sign(num): 0 if num == 0, else num/|num|
sign(num) == IF Eq(num, Zero) THEN Mul(Zero, num) ELSE Div(num, Abs(num))

\* __house_zero_norm: the branch norm(x[1:]) == 0
house_zero_norm(x) ==
    [v    |-> <<One>> \o From(x, 1),
     beta |-> IF Eq(x[1], Zero) THEN Mul(x[1], Zero)
              ELSE Add(Mul(x[1], Zero), Two),
     v_1  |-> <<>>]

\* the pivot of __house_nonzero_norm: whichever of x[0] +- rho is larger
house_pivot(x, x_2_norm) ==
    LET x_norm  == norm(<<x[1], x_2_norm>>)
        rho     == Mul(sign(x[1]), x_norm)
        v_1p    == Add(x[1], rho)
        v_1m    == Sub(x[1], rho)
    IN  IF Geq(Abs(v_1p), Abs(v_1m)) THEN v_1p ELSE v_1m

\* __house_nonzero_norm: the branch norm(x[1:]) != 0
house_nonzero_norm(x, x_2_norm) ==
    LET v1         == house_pivot(x, x_2_norm)
        v_2_norm   == Div(x_2_norm, Abs(v1))
        v_norm_sqr == Add(One, Mul(v_2_norm, v_2_norm))
    IN  [v    |-> <<One>> \o [i \in 1..(Len(x) - 1) |-> Div(x[i + 1], v1)],
         beta |-> Div(Two, v_norm_sqr),
         v_1  |-> v1]

\* house(x_in): [v_out, beta], and the pivot when one was chosen
house(x) ==
    LET x_2_norm == norm(From(x, 1))
    IN  IF Eq(x_2_norm, Zero) THEN house_zero_norm(x)
        ELSE house_nonzero_norm(x, x_2_norm)

\* every square root house(x) takes is one the model represents exactly
HouseExact(x) ==
    /\ HasRoot(SumSq(From(x, 1)))
    /\ LET x_2_norm == norm(From(x, 1))
       IN  Eq(x_2_norm, Zero) \/ HasRoot(SumSq(<<x[1], x_2_norm>>))

(***************************************************************************)
(* Matrices are sequences of rows; entry [r, c] of the source is           *)
(* M[r + 1][c + 1] here.                                                   *)
(***************************************************************************)
NRows(M) == Len(M)
NCols(M) == Len(M[1])
\* matutils.matshape / A.shape
matshape(M) == <<NRows(M), NCols(M)>>

\* M[r0:, c0:]
Block(M, r0, c0) ==
    [r \in 1..(NRows(M) - r0) |-> [c \in 1..(NCols(M) - c0) |-> M[r + r0][c + c0]]]
\* M[r0:, c] as a vector
ColFrom(M, r0, c) == [r \in 1..(NRows(M) - r0) |-> M[r + r0][c + 1]]
\* index_update(M, index[r0:, c0:], B)
SetBlock(M, r0, c0, B) ==
    [r \in 1..NRows(M) |-> [c \in 1..NCols(M) |->
        IF r > r0 /\ c > c0 THEN B[r - r0][c - c0] ELSE M[r][c]]]
\* index_update(M, index[r0:, c], xs)
SetColFrom(M, r0, c, xs) ==
    [r \in 1..NRows(M) |-> [k \in 1..NCols(M) |->
        IF r > r0 /\ k = c + 1 THEN xs[r - r0] ELSE M[r][k]]]

eye(m)      == [r \in 1..m |-> [c \in 1..m |-> IF r = c THEN One ELSE Zero]]
zeros(m, k) == [r \in 1..m |-> [c \in 1..k |-> Zero]]
triu(M) ==
    [r \in 1..NRows(M) |-> [c \in 1..NCols(M) |-> IF c >= r THEN M[r][c] ELSE Zero]]
\* matutils.dag: the conjugate transpose, of a real matrix its transpose
dag(M) == [c \in 1..NCols(M) |-> [r \in 1..NRows(M) |-> M[r][c]]]
outer(u, w) == [r \in 1..Len(u) |-> [c \in 1..Len(w) |-> Mul(u[r], w[c])]]
\* the vector-matrix product u @ M
VecMat(u, M) ==
    [c \in 1..NCols(M) |-> Sum([r \in 1..Len(u) |-> Mul(u[r], M[r][c])])]
\* the matrix-vector product M @ u, M with Len(u) columns
MatVec(M, u) == [r \in 1..Len(M) |-> Dot(M[r], u)]
\* the matrix product B @ C, C with at least one row
MatMul(B, C) == [r \in 1..Len(B) |-> VecMat(B[r], C)]
MatSub(B, C) ==
    [r \in 1..NRows(B) |-> [c \in 1..NCols(B) |-> Sub(B[r][c], C[r][c])]]

\* house_leftmult(A, v, beta) = A - outer(beta*v, dag(v) @ A)
house_leftmult(B, v, b) == MatSub(B, outer(Scale(b, v), VecMat(v, B)))

\* M[:, :k]
LeftCols(M, k) == [r \in 1..NRows(M) |-> SubSeq(M[r], 1, k)]

(***************************************************************************)
(* The loop bodies of the factored representation and its converters.      *)
(***************************************************************************)
\* a pass that applies the reflector to the whole rows H[j:, :]
factor_step_all_columns(Hm, jj) ==
    LET hv == house(ColFrom(Hm, jj, jj))
        H1 == SetBlock(Hm, jj, 0, house_leftmult(Block(Hm, jj, 0), hv.v, hv.beta))
    IN  [H    |-> IF jj < NRows(Hm) THEN SetColFrom(H1, jj + 1, jj, From(hv.v, 1))
                  ELSE H1,
         beta |-> hv.beta]

\* one pass of the loop of __house_qr_factored, at column jj
factor_step(Hm, jj) ==
    LET hv == house(ColFrom(Hm, jj, jj))
        H1 == SetBlock(Hm, jj, jj, house_leftmult(Block(Hm, jj, jj), hv.v, hv.beta))
    IN  [H    |-> IF jj < NRows(Hm) THEN SetColFrom(H1, jj + 1, jj, From(hv.v, 1))
                  ELSE H1,
         beta |-> hv.beta]

\* every square root __house_qr_factored takes from column jj on is exact
RECURSIVE FactorExact(_, _)
FactorExact(Hm, jj) ==
    \/ jj >= NCols(Hm)
    \/ /\ HouseExact(ColFrom(Hm, jj, jj))
       /\ FactorExact(factor_step(Hm, jj).H, jj + 1)

\* factored_to_WY before its loop: column 0 of W and of Y
wy_init(Hm, bs) ==
    LET v0 == <<One>> \o ColFrom(Hm, 1, 0)
    IN  [vj |-> v0,
         W  |-> SetColFrom(zeros(NRows(Hm), NCols(Hm)), 0, 0, Scale(bs[1], v0)),
         Y  |-> SetColFrom(zeros(NRows(Hm), NCols(Hm)), 0, 0, v0)]

\* a pass of the loop that leaves out the minus sign of -betas[j]*z
wy_step_unsigned(Hm, bs, jj, Wm, Ym, vjv) ==
    LET vj1 == [i \in 1..Len(vjv) |->
                   IF i > jj + 1 THEN Hm[i][jj + 1]
                   ELSE IF i = jj + 1 THEN One ELSE vjv[i]]
        vjt == From(vj1, jj)
        YHv == MatVec(dag(LeftCols(Block(Ym, jj, 0), jj)), vjt)
        z0  == MatVec(LeftCols(Wm, jj), YHv)
        z1  == [i \in 1..Len(z0) |->
                   IF i > jj THEN Add(z0[i], Neg(vjt[i - jj])) ELSE z0[i]]
        z   == Scale(bs[jj + 1], z1)
    IN  [vj |-> vj1,
         W  |-> SetColFrom(Wm, 0, jj, z),
         Y  |-> SetColFrom(Ym, jj, jj, vjt)]

\* one pass of the loop of factored_to_WY, at column jj >= 1
wy_step(Hm, bs, jj, Wm, Ym, vjv) ==
    LET vj1 == [i \in 1..Len(vjv) |->
                   IF i > jj + 1 THEN Hm[i][jj + 1]
                   ELSE IF i = jj + 1 THEN One ELSE vjv[i]]
        vjt == From(vj1, jj)
        YHv == MatVec(dag(LeftCols(Block(Ym, jj, 0), jj)), vjt)
        z0  == MatVec(LeftCols(Wm, jj), YHv)
        z1  == [i \in 1..Len(z0) |->
                   IF i > jj THEN Add(z0[i], Neg(vjt[i - jj])) ELSE z0[i]]
        z   == Scale(Neg(bs[jj + 1]), z1)
    IN  [vj |-> vj1,
         W  |-> SetColFrom(Wm, 0, jj, z),
         Y  |-> SetColFrom(Ym, jj, jj, vjt)]

\* B_times_Q_WY(B, W, YH) = B - (B @ W) @ YH
B_times_Q_WY(B, Wm, YHm) == MatSub(B, MatMul(MatMul(B, Wm), YHm))
\* WY_to_Q(W, YH)
WY_to_Q(Wm, YHm) == B_times_Q_WY(eye(NRows(Wm)), Wm, YHm)

\* one pass of the loop of factored_to_QR, at column jj
to_qr_step(h, bs, jj, Qm) ==
    LET v == <<One>> \o ColFrom(h, jj + 1, jj)
    IN  SetBlock(Qm, jj, jj, house_leftmult(Block(Qm, jj, jj), v, bs[jj + 1]))

(***************************************************************************)
(* The values the variables of a component hold while another one runs.    *)
(***************************************************************************)
CtlInit   == raised = "" /\ calls = <<>>
HouseIdle == x_in = <<>> /\ v_out = <<>> /\ beta = Zero /\ v_1 = <<>>
QrIdle ==
    /\ mode = "" /\ A = <<>> /\ H = <<>> /\ betas = <<>> /\ j = 0 /\ vj = <<>>
    /\ W = <<>> /\ Y = <<>> /\ YH = <<>> /\ Q = <<>> /\ R = <<>> /\ Qwy = <<>>
RecIdle == n_block = 0 /\ stack = <<>> /\ blocks = <<>>
SvdIdle ==
    /\ s = <<>> /\ n = 0 /\ tol = Zero /\ max_iter = 0 /\ n_iter = 0
    /\ done = FALSE /\ err = Zero /\ warnings = 0 /\ triple = 0

(***************************************************************************)
(* house(x_in)                                                             *)
(***************************************************************************)
HouseEntries == {Num(-4), Num(-3), Num(0), Num(3), Num(4), Num(5), Num(12)}
HouseInputs ==
    {x \in UNION {[1..k -> HouseEntries] : k \in 1..MaxLen} : HouseExact(x)}

InitHouse ==
    /\ pc = "house" /\ CtlInit
    /\ x_in \in HouseInputs
    /\ v_out = <<>> /\ beta = Zero /\ v_1 = <<>>
    /\ QrIdle /\ RecIdle /\ SvdIdle

\* house taking the branch of __house_zero_norm
HouseZeroNorm ==
    /\ pc = "house"
    /\ Eq(norm(From(x_in, 1)), Zero)
    /\ v_out' = house(x_in).v
    /\ beta' = house(x_in).beta
    /\ v_1' = house(x_in).v_1
    /\ pc' = "house_done"
    /\ UNCHANGED <<raised, calls, x_in, qrVars, recVars, svdVars>>

\* house taking the branch of __house_nonzero_norm
HouseNonzeroNorm ==
    /\ pc = "house"
    /\ ~Eq(norm(From(x_in, 1)), Zero)
    /\ v_out' = house(x_in).v
    /\ beta' = house(x_in).beta
    /\ v_1' = house(x_in).v_1
    /\ pc' = "house_done"
    /\ UNCHANGED <<raised, calls, x_in, qrVars, recVars, svdVars>>

NextHouse == HouseZeroNorm \/ HouseNonzeroNorm
SpecHouse == InitHouse /\ [][NextHouse]_vars

(***************************************************************************)
(* Claims about house.                                                     *)
(***************************************************************************)
AllFinite(xs) == \A i \in 1..Len(xs) : IsFinite(xs[i])
AllZero(xs)   == \A i \in 1..Len(xs) : xs[i] = Zero

\* C1: house has no failure condition: for every finite input, also one
\* with x[0] = 0 and a nonzero tail, the pivot v_1 chosen in the branch of
\* __house_nonzero_norm is nonzero, and the returned v and beta are finite.
C1_HouseDefined ==
    pc = "house_done" =>
        /\ v_1 # <<>> => (IsFinite(v_1) /\ v_1 # Zero)
        /\ AllFinite(v_out)
        /\ IsFinite(beta)

\* C2: house returns v with v[0] = 1; beta = 0 exactly when x is the zero
\* vector; with a zero tail and x[0] != 0 it returns beta = 2 and v equal to
\* x with v[0] replaced by 1.
C2_HouseUnitHead ==
    pc = "house_done" =>
        /\ Len(v_out) = Len(x_in)
        /\ v_out[1] = One
        /\ Eq(beta, Zero) <=> AllZero(x_in)
        /\ (AllZero(From(x_in, 1)) /\ x_in[1] # Zero) =>
              (beta = Two /\ v_out = <<One>> \o From(x_in, 1))

(***************************************************************************)
(* house_qr(A, mode), and a caller converting what mode "factored" returns  *)
(* with factored_to_WY, WY_to_Q and factored_to_QR.                         *)
(***************************************************************************)
\* the five modes of house_qr, and a string that is none of them
Modes      == {"reduced", "complete", "r", "factored", "WY", "full"}
MatEntries == {Num(0), Num(3), Num(4)}
Shapes     == {mk \in (1..MaxSize) \X (1..MaxSize) : mk[1] * mk[2] <= MaxSize}
QrInputs ==
    {M \in UNION {[1..mk[1] -> [1..mk[2] -> MatEntries]] : mk \in Shapes} :
        NCols(M) <= NRows(M) => FactorExact(M, 0)}

\* house_qr's test of the mode for the pass-through to jnp.linalg.qr
Delegated(md) == md = "reduced" \/ md = "complete" \/ md = "r"
\* a shape test that also turns square matrices away
ShapeUnsupportedSquare(m_, n_) == n_ >= m_
\* house_qr's test of the shape
ShapeUnsupported(m_, n_) == n_ > m_

InitQr ==
    /\ pc = "house_qr" /\ CtlInit
    /\ A \in QrInputs
    /\ mode \in Modes
    /\ H = <<>> /\ betas = <<>> /\ j = 0 /\ vj = <<>>
    /\ W = <<>> /\ Y = <<>> /\ YH = <<>> /\ Q = <<>> /\ R = <<>> /\ Qwy = <<>>
    /\ HouseIdle /\ RecIdle /\ SvdIdle

\* house_qr, modes reduced, complete and r: return jnp.linalg.qr(A, mode)
HouseQrDelegate ==
    /\ pc = "house_qr"
    /\ Delegated(mode)
    /\ calls' = Append(calls, "jnp.linalg.qr")
    /\ pc' = "qr_done"
    /\ UNCHANGED <<raised, houseVars, qrVars, recVars, svdVars>>

\* house_qr, any other mode, n > m: raise NotImplementedError
HouseQrNotImplemented ==
    /\ pc = "house_qr"
    /\ ~Delegated(mode)
    /\ ShapeUnsupported(NRows(A), NCols(A))
    /\ raised' = "NotImplementedError"
    /\ pc' = "qr_raised"
    /\ UNCHANGED <<calls, houseVars, qrVars, recVars, svdVars>>

\* house_qr, modes factored and WY, n <= m: enter __house_qr_factored(A)
HouseQrFactor ==
    /\ pc = "house_qr"
    /\ ~Delegated(mode)
    /\ ~ShapeUnsupported(NRows(A), NCols(A))
    /\ mode = "factored" \/ mode = "WY"
    /\ H' = A
    /\ betas' = <<>>
    /\ j' = 0
    /\ pc' = "factor"
    /\ UNCHANGED <<raised, calls, houseVars, mode, A, vj, W, Y, YH, Q, R, Qwy,
                   recVars, svdVars>>

\* house_qr, a mode that is none of the five, n <= m: raise ValueError
HouseQrInvalidMode ==
    /\ pc = "house_qr"
    /\ ~Delegated(mode)
    /\ ~ShapeUnsupported(NRows(A), NCols(A))
    /\ ~(mode = "factored" \/ mode = "WY")
    /\ raised' = "ValueError"
    /\ pc' = "qr_raised"
    /\ UNCHANGED <<calls, houseVars, qrVars, recVars, svdVars>>

\* __house_qr_factored: one pass of the loop over the columns
FactorStep ==
    /\ pc = "factor"
    /\ j < NCols(A)
    /\ H' = factor_step(H, j).H
    /\ betas' = Append(betas, factor_step(H, j).beta)
    /\ calls' = Append(calls, "house")
    /\ j' = j + 1
    /\ UNCHANGED <<pc, raised, houseVars, mode, A, vj, W, Y, YH, Q, R, Qwy,
                   recVars, svdVars>>

\* __house_qr_factored returns [H, beta]: mode factored returns it to the
\* caller, mode WY takes R = triu(H) and goes on to factored_to_WY
FactorReturn ==
    /\ pc = "factor"
    /\ j = NCols(A)
    /\ IF mode = "factored"
       THEN pc' = "factored_done" /\ R' = R
       ELSE pc' = "to_wy" /\ R' = triu(H)
    /\ UNCHANGED <<raised, calls, houseVars, mode, A, H, betas, j, vj, W, Y, YH,
                   Q, Qwy, recVars, svdVars>>

\* factored_to_WY([H, betas]) up to its loop; called by house_qr in mode WY
\* and by the caller holding the factored representation
WYInit ==
    /\ pc = "to_wy" \/ pc = "factored_done"
    /\ W' = wy_init(H, betas).W
    /\ Y' = wy_init(H, betas).Y
    /\ vj' = wy_init(H, betas).vj
    /\ j' = 1
    /\ pc' = "wy_loop"
    /\ UNCHANGED <<raised, calls, houseVars, mode, A, H, betas, YH, Q, R, Qwy,
                   recVars, svdVars>>

\* factored_to_WY: one pass of the loop over the columns 1..n-1
WYStep ==
    /\ pc = "wy_loop"
    /\ j < NCols(H)
    /\ W' = wy_step(H, betas, j, W, Y, vj).W
    /\ Y' = wy_step(H, betas, j, W, Y, vj).Y
    /\ vj' = wy_step(H, betas, j, W, Y, vj).vj
    /\ j' = j + 1
    /\ UNCHANGED <<pc, raised, calls, houseVars, mode, A, H, betas, YH, Q, R, Qwy,
                   recVars, svdVars>>

\* factored_to_WY returns [W, dag(Y)]
WYReturn ==
    /\ pc = "wy_loop"
    /\ j >= NCols(H)
    /\ YH' = dag(Y)
    /\ pc' = "wy_done"
    /\ UNCHANGED <<raised, calls, houseVars, mode, A, H, betas, j, vj, W, Y, Q, R,
                   Qwy, recVars, svdVars>>

\* the caller recovers the dense Q with WY_to_Q(W, YH)
WYToQ ==
    /\ pc = "wy_done"
    /\ Qwy' = WY_to_Q(W, YH)
    /\ pc' = IF mode = "factored" THEN "to_qr" ELSE "qr_done"
    /\ UNCHANGED <<raised, calls, houseVars, mode, A, H, betas, j, vj, W, Y, YH,
                   Q, R, recVars, svdVars>>

\* factored_to_QR(h, beta) up to its loop
ToQRInit ==
    /\ pc = "to_qr"
    /\ R' = triu(H)
    /\ Q' = eye(NRows(H))
    /\ j' = NCols(H) - 1
    /\ pc' = "qr_loop"
    /\ UNCHANGED <<raised, calls, houseVars, mode, A, H, betas, vj, W, Y, YH, Qwy,
                   recVars, svdVars>>

\* factored_to_QR: one pass of the loop over the columns n-1..0
ToQRStep ==
    /\ pc = "qr_loop"
    /\ j >= 0
    /\ Q' = to_qr_step(H, betas, j, Q)
    /\ j' = j - 1
    /\ UNCHANGED <<pc, raised, calls, houseVars, mode, A, H, betas, vj, W, Y, YH,
                   R, Qwy, recVars, svdVars>>

\* factored_to_QR returns [Q, R]
ToQRReturn ==
    /\ pc = "qr_loop"
    /\ j < 0
    /\ pc' = "roundtrip_done"
    /\ UNCHANGED <<raised, calls, houseVars, qrVars, recVars, svdVars>>

NextQr ==
    \/ HouseQrDelegate \/ HouseQrNotImplemented \/ HouseQrFactor
    \/ HouseQrInvalidMode
    \/ FactorStep \/ FactorReturn
    \/ WYInit \/ WYStep \/ WYReturn \/ WYToQ
    \/ ToQRInit \/ ToQRStep \/ ToQRReturn
SpecQr == InitQr /\ [][NextQr]_vars

(***************************************************************************)
(* Claims about house_qr and the converters.                               *)
(***************************************************************************)
MatEq(B, C) ==
    /\ NRows(B) = NRows(C) /\ NCols(B) = NCols(C)
    /\ \A r \in 1..NRows(B) : \A c \in 1..NCols(B) : Eq(B[r][c], C[r][c])

\* C3: modes factored and WY fail with NotImplementedError whenever N > M,
\* before any reflector is computed, and never when N <= M; modes reduced,
\* complete and r go straight to the external dense QR for every shape.
C3_ShapeCheck ==
    pc # "house_qr" =>
        /\ (mode \in {"factored", "WY"} /\ NCols(A) > NRows(A)) =>
              (raised = "NotImplementedError" /\ calls = <<>> /\ H = <<>>)
        /\ (mode \in {"factored", "WY"} /\ NCols(A) <= NRows(A)) =>
              raised # "NotImplementedError"
        /\ mode \in {"reduced", "complete", "r"} =>
              (pc = "qr_done" /\ raised = "" /\ calls = <<"jnp.linalg.qr">>
               /\ H = <<>>)
C3_Witness ==
    /\ pc = "qr_raised" /\ mode = "WY" /\ NCols(A) > NRows(A)
    /\ raised = "NotImplementedError"

\* C4: a mode that is none of the five fails with ValueError, before any
\* computation, for every shape, also when N > M.
C4_InvalidMode ==
    (pc # "house_qr" /\ mode \notin {"reduced", "complete", "r", "factored", "WY"})
        => (raised = "ValueError" /\ calls = <<>> /\ H = <<>>)

\* C10: for the factored representation of an M x N matrix, 1 <= N <= M,
\* WY_to_Q(factored_to_WY(H, betas)) equals the Q of factored_to_QR(H, betas).
C10_RoundTrip == pc = "roundtrip_done" => MatEq(Qwy, Q)

\* the number of columns of W and Y that factored_to_WY has written
WYColumnsDone ==
    IF pc = "wy_loop" THEN j ELSE IF W = <<>> THEN 0 ELSE NCols(H)
\* v_c: column c's Householder vector, 1 at position c and zeros above
PaddedV(c) ==
    [i \in 1..NRows(H) |->
        IF i <= c THEN Zero ELSE IF i = c + 1 THEN One ELSE H[i][c + 1]]
\* Y[:, :c]* . v_c, the rows above c, where v_c is zero, left out
YHvOf(c) ==
    [k \in 1..c |->
        Sum([i \in 1..(NRows(H) - c) |-> Mul(Y[i + c][k], PaddedV(c)[i + c])])]
\* coef . (v_c - W[:, :c] . (Y[:, :c]* . v_c))
WColumnOf(c, coef) ==
    [i \in 1..NRows(H) |->
        Mul(coef, Sub(PaddedV(c)[i],
                      Sum([k \in 1..c |-> Mul(W[i][k], YHvOf(c)[k])])))]
Column(M, c) == [i \in 1..NRows(M) |-> M[i][c + 1]]
FirstWYColumn ==
    WYColumnsDone >= 1 =>
        /\ Column(W, 0) = Scale(betas[1], PaddedV(0))
        /\ Column(Y, 0) = PaddedV(0)

\* C11 as stated: for every column j >= 1 of factored_to_WY,
\* W[:, j] = -beta_j (v_j - W[:, :j] (Y[:, :j]* v_j)) and Y[j:, j] = v_j[j:];
\* column 0 is W[:, 0] = beta_0 v_0, Y[:, 0] = v_0.
C11_WYColumnsAsStated ==
    /\ FirstWYColumn
    /\ \A c \in 1..(WYColumnsDone - 1) :
          /\ Column(W, c) = WColumnOf(c, Neg(betas[c + 1]))
          /\ From(Column(Y, c), c) = From(PaddedV(c), c)

\* C11 amended: for every column j >= 1 of factored_to_WY,
\* W[:, j] = beta_j (v_j - W[:, :j] (Y[:, :j]* v_j)), the value the code
\* computes as -beta_j (W[:, :j] (Y[j:, :j]* v_j[j:]) - v_j), and
\* Y[j:, j] = v_j[j:]; column 0 is W[:, 0] = beta_0 v_0, Y[:, 0] = v_0.
C11_WYColumns ==
    /\ FirstWYColumn
    /\ \A c \in 1..(WYColumnsDone - 1) :
          /\ Column(W, c) = WColumnOf(c, betas[c + 1])
          /\ From(Column(Y, c), c) = From(PaddedV(c), c)
C11_Witness ==
    /\ pc = "wy_done" /\ NCols(H) >= 2
    /\ \A i \in 1..NRows(H) : AllFinite(W[i])
    /\ W[2][2] # Zero /\ W[1][2] # Zero

\* the working matrix of __house_qr_factored(A) after its first k passes
RECURSIVE HAfter(_)
HAfter(k) == IF k = 0 THEN A ELSE factor_step(HAfter(k - 1), k - 1).H
\* a pass of the loop of __house_qr_factored, at column j: it changes only
\* H[j:, j:], packs the tail of the reflector it built into H[j+1:, j] and
\* appends that reflector's beta
FactorPassFrame ==
    (pc = "factor" /\ pc' = "factor") =>
        /\ j' = j + 1
        /\ \A r \in 1..NRows(H) : \A c \in 1..NCols(H) :
              (r <= j \/ c <= j) => H'[r][c] = H[r][c]
        /\ ColFrom(H', j + 1, j) = From(house(ColFrom(H, j, j)).v, 1)
        /\ betas' = Append(betas, house(ColFrom(H, j, j)).beta)
\* what __house_qr_factored returns
FactoredPacked ==
    pc = "factored_done" =>
        /\ Len(betas) = NCols(A)
        /\ matshape(H) = matshape(A)
        /\ \A c \in 0..(NCols(A) - 1) :
              LET hv == house(ColFrom(HAfter(c), c, c))
              IN  /\ ColFrom(H, c + 1, c) = From(hv.v, 1)
                  /\ betas[c + 1] = hv.beta

\* C12: step j of houseqr_factored (j = 0..N-1, increasing) changes only
\* H[j:, j:] and leaves rows < j and columns < j unchanged; after all N steps
\* H[j+1:, j] is the tail v_j[1:] of the reflector built at step j, beta_list
\* has length N with beta_list[j] that reflector's beta, and A is unmodified.
C12_FactoredFrame ==
    /\ [][FactorPassFrame]_vars
    /\ [][pc # "house_qr" => A' = A]_vars
    /\ [][(pc = "factor" /\ pc' # "factor") => (j = NCols(A) /\ H' = H)]_vars
    /\ []FactoredPacked
C12_Witness ==
    /\ pc = "factored_done" /\ NCols(A) = 2
    /\ \A i \in 1..NRows(H) : AllFinite(H[i])
    /\ H[2][1] # Zero /\ betas[2] # Zero /\ H[2][2] # A[2][2]

(***************************************************************************)
(* recursiveQR(A, n_block).  Only the column range [lo, hi) of each call   *)
(* is kept: the factors themselves come from jnp.linalg.qr.  The stack     *)
(* holds the calls in progress, the innermost last; a frame's phase says   *)
(* where that call stands: "enter" at its first line, "left" while the     *)
(* left half is being factored, "right" while the right half is.           *)
(***************************************************************************)
\* a test of the block size that lets 0 through
BlockInvalidNegative(nb) == nb < 0
\* __recursiveQR's test of the block size
BlockInvalid(nb) == nb < 1

\* a split that gives the left half the odd column
SplitAtCeil(w) == (w + 1) \div 2
\* n0 = n//2
SplitAt(w) == w \div 2

Top       == stack[Len(stack)]
Pop       == SubSeq(stack, 1, Len(stack) - 1)
SetTop(f) == [stack EXCEPT ![Len(stack)] = f]
Width(f)  == f.hi - f.lo
\* where a call that returns leaves the run
AfterReturn == IF Len(stack) = 1 THEN "rec_done" ELSE "rec"

InitRec ==
    /\ pc = "rec" /\ CtlInit
    /\ n_block \in -1..MaxBlock
    /\ \E cols \in 0..MaxCols : stack = <<[lo |-> 0, hi |-> cols, phase |-> "enter"]>>
    /\ blocks = <<>>
    /\ HouseIdle /\ QrIdle /\ SvdIdle

\* n_block < 1: raise ValueError
RecRaise ==
    /\ pc = "rec"
    /\ Top.phase = "enter"
    /\ BlockInvalid(n_block)
    /\ raised' = "ValueError"
    /\ pc' = "rec_raised"
    /\ UNCHANGED <<calls, houseVars, qrVars, recVars, svdVars>>

\* n <= n_block: Q, R = jnp.linalg.qr(A, mode="reduced"); return [Q, R]
RecBase ==
    /\ pc = "rec"
    /\ Top.phase = "enter"
    /\ ~BlockInvalid(n_block)
    /\ Width(Top) <= n_block
    /\ calls' = Append(calls, "jnp.linalg.qr")
    /\ blocks' = Append(blocks, <<Top.lo, Top.hi>>)
    /\ stack' = Pop
    /\ pc' = AfterReturn
    /\ UNCHANGED <<raised, houseVars, qrVars, n_block, svdVars>>

\* n > n_block: n0 = n//2; call recursiveQR(A[:, :n0], n_block)
RecSplit ==
    /\ pc = "rec"
    /\ Top.phase = "enter"
    /\ ~BlockInvalid(n_block)
    /\ Width(Top) > n_block
    /\ LET n0 == SplitAt(Width(Top))
       IN  stack' = Append(SetTop([Top EXCEPT !.phase = "left"]),
                           [lo |-> Top.lo, hi |-> Top.lo + n0, phase |-> "enter"])
    /\ UNCHANGED <<pc, raised, calls, houseVars, qrVars, n_block, blocks, svdVars>>

\* the left half has returned: R01 = dag(Q0) @ A[:, n0:], the right block
\* becomes A[:, n0:] - Q0 @ R01; call recursiveQR(A[:, n0:], n_block)
RecUpdate ==
    /\ pc = "rec"
    /\ Top.phase = "left"
    /\ calls' = calls \o <<"dag(Q0) @ A1", "Q0 @ R01">>
    /\ LET n0 == SplitAt(Width(Top))
       IN  stack' = Append(SetTop([Top EXCEPT !.phase = "right"]),
                           [lo |-> Top.lo + n0, hi |-> Top.hi, phase |-> "enter"])
    /\ UNCHANGED <<pc, raised, houseVars, qrVars, n_block, blocks, svdVars>>

\* the right half has returned: assemble Q and R; return [Q, R]
RecAssemble ==
    /\ pc = "rec"
    /\ Top.phase = "right"
    /\ stack' = Pop
    /\ pc' = AfterReturn
    /\ UNCHANGED <<raised, calls, houseVars, qrVars, n_block, blocks, svdVars>>

NextRec == RecRaise \/ RecBase \/ RecSplit \/ RecUpdate \/ RecAssemble
SpecRec == InitRec /\ [][NextRec]_vars
\* the recursion runs on one thread: a step that can be taken is taken
FairSpecRec == SpecRec /\ WF_vars(NextRec)

\* C5: with block_size < 1 recursive_qr fails with ValueError before any QR
\* factorization or matrix product; with block_size >= 1 it never raises
\* ValueError, at any level of the recursion.
C5_BlockSize ==
    /\ (n_block < 1 /\ (pc # "rec" \/ Len(stack) # 1 \/ Top.phase # "enter")) =>
          (pc = "rec_raised" /\ raised = "ValueError" /\ calls = <<>>
           /\ blocks = <<>>)
    /\ n_block >= 1 => (raised = "" /\ pc # "rec_raised")
C5_Witness ==
    /\ pc = "rec_raised" /\ raised = "ValueError" /\ n_block = 0
    /\ Width(Top) > 1

\* the column up to which base-case calls have factored A
CoveredTo == IF blocks = <<>> THEN 0 ELSE blocks[Len(blocks)][2]
\* a run of recursiveQR on a matrix with N >= 1 columns and n_block >= 1
RecRegular == pc = "rec" /\ n_block >= 1 /\ stack[1].hi >= 1
\* the base-case ranges are contiguous from column 0, each 1..n_block wide
BlocksContiguous ==
    \A i \in 1..Len(blocks) :
        /\ blocks[i][1] = (IF i = 1 THEN 0 ELSE blocks[i - 1][2])
        /\ blocks[i][2] - blocks[i][1] >= 1
        /\ blocks[i][2] - blocks[i][1] <= n_block
\* every call in progress below the innermost has split at n0 = n//2 into
\* two non-empty halves, and its callee holds the half its phase names
FramesNested ==
    \A k \in 2..Len(stack) :
        LET parent == stack[k - 1]
            n0     == Width(parent) \div 2
        IN  /\ Width(parent) > n_block
            /\ 0 < n0 /\ n0 < Width(parent)
            /\ parent.phase \in {"left", "right"}
            /\ parent.phase = "left" =>
                  (stack[k].lo = parent.lo /\ stack[k].hi = parent.lo + n0)
            /\ parent.phase = "right" =>
                  (stack[k].lo = parent.lo + n0 /\ stack[k].hi = parent.hi)
\* the left half is factored completely, and nothing of the right half,
\* when the right half is about to be updated
LeftBeforeRight ==
    /\ Top.phase = "enter" => CoveredTo = Top.lo
    /\ Top.phase = "left"  => CoveredTo = Top.lo + Width(Top) \div 2
    /\ Top.phase = "right" => CoveredTo = Top.hi
RecOrder ==
    /\ RecRegular => (BlocksContiguous /\ FramesNested /\ LeftBeforeRight)
    /\ (pc = "rec_done" /\ n_block >= 1 /\ CoveredTo >= 1) => BlocksContiguous
\* a call is a base case exactly when n <= n_block; otherwise it splits
RecEnterStep ==
    (RecRegular /\ Top.phase = "enter") =>
        IF Width(Top) <= n_block
        THEN /\ blocks' = Append(blocks, <<Top.lo, Top.hi>>)
             /\ stack' = Pop
             /\ calls' = Append(calls, "jnp.linalg.qr")
        ELSE /\ blocks' = blocks /\ calls' = calls
             /\ Len(stack') = Len(stack) + 1
             /\ stack'[Len(stack')] =
                   [lo |-> Top.lo, hi |-> Top.lo + Width(Top) \div 2,
                    phase |-> "enter"]
\* the right block is updated only after the left half has returned
RecUpdateStep ==
    (RecRegular /\ calls' # calls /\ Top.phase # "enter") =>
        /\ Top.phase = "left"
        /\ CoveredTo = Top.lo + Width(Top) \div 2
        /\ blocks' = blocks
        /\ calls' = calls \o <<"dag(Q0) @ A1", "Q0 @ R01">>
\* the outermost call returns with all N columns factored
RecReturnStep ==
    (RecRegular /\ pc' = "rec_done") => CoveredTo' = stack[1].hi

SArgs   == {<<>>} \cup {<<k>> : k \in -1..(MaxN + 1)}
TolVals == {Num(-1), Zero, One}
ErrVals == {Zero, One, Two, NaN}

\* a test of s that lets s = n through
SInvalidAboveN(sv, nn) == sv < 0 \/ sv > nn
\* block_power_svd's test of s
SInvalid(sv, nn) == sv < 0 \/ sv >= nn

\* a loop test that stops one iteration late
LoopDoneLate(e, t, k, mx) == Leq(e, t) \/ k > mx
\* done = err <= tol or n_iter >= max_iter
LoopDone(e, t, k, mx) == Leq(e, t) \/ k >= mx

\* a test of the cap that misses the iteration reaching it
CapReachedLate(k, mx) == k > mx
\* the test guarding the warning: n_iter >= max_iter
CapReached(k, mx) == k >= mx

InitSvd ==
    /\ pc = "svd" /\ CtlInit
    /\ n \in 1..MaxN
    /\ s \in SArgs
    /\ tol \in TolVals
    /\ max_iter \in 0..MaxIter
    /\ n_iter = 0 /\ done = FALSE /\ err = Zero /\ warnings = 0 /\ triple = 0
    /\ HouseIdle /\ QrIdle /\ RecIdle

\* s is None: the comparison s < 0 raises TypeError
SvdTypeError ==
    /\ pc = "svd"
    /\ s = <<>>
    /\ raised' = "TypeError"
    /\ pc' = "svd_raised"
    /\ UNCHANGED <<calls, houseVars, qrVars, recVars, svdVars>>

\* s < 0 or s >= n: raise ValueError
SvdInvalid ==
    /\ pc = "svd"
    /\ s # <<>>
    /\ SInvalid(s[1], n)
    /\ raised' = "ValueError"
    /\ pc' = "svd_raised"
    /\ UNCHANGED <<calls, houseVars, qrVars, recVars, svdVars>>

\* V = gaussian_random_fill(...); done = False; n_iter = 0
SvdStart ==
    /\ pc = "svd"
    /\ s # <<>>
    /\ ~SInvalid(s[1], n)
    /\ calls' = Append(calls, "gaussian_random_fill")
    /\ done' = FALSE
    /\ n_iter' = 0
    /\ pc' = "svd_loop"
    /\ UNCHANGED <<raised, houseVars, qrVars, recVars, s, n, tol, max_iter, err,
                   warnings, triple>>

\* one pass of the while loop
SvdIterate ==
    /\ pc = "svd_loop"
    /\ ~done
    /\ n_iter' = n_iter + 1
    /\ calls' = Append(calls, "__block_svd_iteration")
    /\ err' \in ErrVals
    /\ triple' = n_iter'
    /\ done' = LoopDone(err', tol, n_iter', max_iter)
    /\ warnings' = IF CapReached(n_iter', max_iter) THEN warnings + 1 ELSE warnings
    /\ UNCHANGED <<pc, raised, houseVars, qrVars, recVars, s, n, tol, max_iter>>

\* return [U, Sigma, V]
SvdReturn ==
    /\ pc = "svd_loop"
    /\ done
    /\ pc' = "svd_done"
    /\ UNCHANGED <<raised, calls, houseVars, qrVars, recVars, svdVars>>

NextSvd == SvdTypeError \/ SvdInvalid \/ SvdStart \/ SvdIterate \/ SvdReturn
SpecSvd == InitSvd /\ [][NextSvd]_vars
\* the call runs on one thread to its end: a step that can be taken is taken
FairSpecSvd == SpecSvd /\ WF_vars(NextSvd)

C7_Stopped ==
    pc = "svd_done" =>
        /\ n_iter >= 1
        /\ Leq(err, tol) \/ n_iter >= max_iter
        /\ max_iter >= 1 => n_iter <= max_iter
        /\ triple = n_iter
C7_LoopTerminates ==
    /\ []C7_Stopped
    /\ [][(pc = "svd_loop" /\ n_iter >= 1
           /\ (Leq(err, tol) \/ n_iter >= max_iter)) => n_iter' = n_iter]_vars
    /\ <>(pc \in {"svd_done", "svd_raised"})
C7_Witness ==
    /\ pc = "svd_done" /\ max_iter >= 2 /\ n_iter = max_iter /\ ~Leq(err, tol)

\* C8: reaching the cap is a soft failure: when the count reaches max_iter
\* the call emits the diagnostic exactly once and still returns the triple
\* without raising; when the loop stops on err <= tol before the count
\* reaches max_iter, no diagnostic is emitted.
C8_SoftCap ==
    /\ warnings <= 1
    /\ pc = "svd_done" =>
          /\ raised = "" /\ triple = n_iter /\ triple >= 1
          /\ n_iter >= max_iter => warnings = 1
          /\ (Leq(err, tol) /\ n_iter < max_iter) => warnings = 0
C8_Witness ==
    /\ pc = "svd_done" /\ warnings = 1 /\ max_iter >= 2 /\ ~Leq(err, tol)

\* C9: with s omitted block_power_svd truncates to s = n, as documented,
\* and returns [U, Sigma, V].
C9_DefaultS ==
    (s = <<>> /\ pc # "svd") => (raised = "" /\ pc \in {"svd_loop", "svd_done"})

====
